---- MODULE Spec2Model ----
(***************************************************************************)
(* Model of the video-builder-web gateway (src/main.py): the POST          *)
(* /video-url handler queue_video and the queue publisher enqueue_job.     *)
(*                                                                         *)
(* Strings are sequences of one-character strings, so that formatting      *)
(* (the f-string building final_key), slicing and JSON string escaping are *)
(* computed rather than assumed.                                           *)
(*                                                                         *)
(* queue_video is an "async def" with no await in it and enqueue_job calls *)
(* the blocking requests.post, so the event loop runs one request handler  *)
(* to completion before it starts the next: the model has one request in   *)
(* flight at a time.  The handler is split only at its blocking call.      *)
(***************************************************************************)
EXTENDS Integers, Sequences, FiniteSets, TLC

VARIABLES
    pc,        \* "idle": no handler running; "awaiting": inside requests.post
    nreq,      \* number of requests received so far
    req,       \* the form fields of the latest request
    job,       \* the job dict queue_video built for it (NoJob if none)
    wire,      \* the bodies POSTed to QUEUE_URL during the latest request
    elapsed,   \* seconds the pending requests.post has waited
    outcome,   \* what the backend did with the latest POST
    resp,      \* the HTTP response the caller got for the latest request
    jobs,      \* every job dict built by this process, in order
    used       \* the uuid4 draws already made by this process

vars == <<pc, nreq, req, job, wire, elapsed, outcome, resp, jobs, used>>

----------------------------------------------------------------------------
\* Bounds of the model.

MaxRequests == 3

MaxIds == 3

----------------------------------------------------------------------------
\* Strings.

Empty == <<>>

HexDigits ==
    <<"0", "1", "2", "3", "4", "5", "6", "7",
      "8", "9", "a", "b", "c", "d", "e", "f">>

\* The literal parts of the f-string f"final-video-{date}.mp4".
KeyPrefix == <<"f", "i", "n", "a", "l", "-", "v", "i", "d", "e", "o", "-">>

KeySuffix == <<".", "m", "p", "4">>

\* Form values a caller may send.  The empty string is a value a form can
\* carry; one URL holds a backslash and one a double quote, the characters
\* JSON has to escape.
AudioUrls == {Empty, <<"a", "\\", "3">>}

ImageUrls == {Empty, <<"i", "\"", "g">>}

Dates == {Empty, <<"2", "4">>, <<"2", "5">>}

----------------------------------------------------------------------------
\* uuid.uuid4().hex: 32 lowercase hex digits, the version nibble "4" at
\* position 13 and the variant nibble at position 17.  The draw is the
\* model's stand-in for the 122 random bits.

uuid4hex(draw) ==
    [k \in 1..32 |->
        IF k = 13 THEN "4"
        ELSE IF k = 17 THEN "8"
        ELSE HexDigits[((draw * k) % 16) + 1]]

\* final_key = f"final-video-{date}.mp4"
FinalKey(date) == KeyPrefix \o date \o KeySuffix

BuildJobModuleLevelId(id, audio_url, image_url, date) ==
    [job_id    |-> uuid4hex(1),
     audio_url |-> audio_url,
     image_url |-> image_url,
     date      |-> date,
     final_key |-> FinalKey(date)]

\* The job dict of queue_video.
BuildJob(id, audio_url, image_url, date) ==
    [job_id    |-> id,
     audio_url |-> audio_url,
     image_url |-> image_url,
     date      |-> date,
     final_key |-> FinalKey(date)]

FormOptional(v) == FALSE

\* A parameter declared Form(...) is required, and FastAPI reads an empty
\* form value as a missing one: the request is answered 422 before the
\* handler body runs.
FormMissing(v) == v = Empty

----------------------------------------------------------------------------
\* JSON encoding of the request body (requests.post(..., json=payload)).

RECURSIVE EscapeStr(_)
\* json.dumps of the characters of a string: a double quote and a backslash
\* are written with a backslash before them.
EscapeStr(s) ==
    IF s = Empty THEN Empty
    ELSE (IF Head(s) \in {"\"", "\\"} THEN <<"\\", Head(s)>> ELSE <<Head(s)>>)
         \o EscapeStr(Tail(s))

RECURSIVE UnescapeStr(_)
\* json.loads of the characters between the quotes.
UnescapeStr(s) ==
    IF s = Empty THEN Empty
    ELSE IF Head(s) = "\\" /\ Len(s) >= 2
         THEN <<s[2]>> \o UnescapeStr(Tail(Tail(s)))
         ELSE <<Head(s)>> \o UnescapeStr(Tail(s))

DumpStr(s) == <<"\"">> \o EscapeStr(s) \o <<"\"">>

LoadStr(w) == UnescapeStr(SubSeq(w, 2, Len(w) - 1))

\* A dict of strings on the wire: each value as its JSON string token.
JsonDumps(d) == [k \in DOMAIN d |-> DumpStr(d[k])]

JsonLoads(w) == [k \in DOMAIN w |-> LoadStr(w[k])]

EnvelopeTwoMessages(j) ==
    [messages |-> <<[body |-> JsonDumps(j)], [body |-> JsonDumps(j)]>>]

\* payload = {"messages": [{"body": job}]}, as serialized by requests.
Envelope(j) == [messages |-> <<[body |-> JsonDumps(j)]>>]

PostTwice(log, body) == Append(Append(log, body), body)

\* The one requests.post call of enqueue_job.
Post(log, body) == Append(log, body)

----------------------------------------------------------------------------
\* The backend's answer.

\* requests.post(..., timeout=15): seconds of silence after which requests
\* raises a Timeout.
timeout == 15

\* Status codes of a final HTTP response on either side of the test
\* "resp.status_code >= 300" (1xx responses are interim ones).
Statuses == {200, 201, 299, 300, 404, 503}

\* resp.text, the response body as received.
Bodies ==
    {"",
     "<html>Service Unavailable</html>",
     "[]",
     "{}",
     "{\"success\": true}",
     "{\"success\": false}",
     "{\"success\": null}",
     "{\"success\": \"false\"}"}

Absent == [t |-> "absent", v |-> ""]

False == [t |-> "bool", v |-> "false"]

True == [t |-> "bool", v |-> "true"]

\* resp.json(): what json.loads makes of the body.  kind "invalid" is a body
\* that is no JSON document (json.loads raises), "list" a JSON array,
\* "object" a JSON object whose "success" member is the given value.
Json(text) ==
    CASE text = "[]" -> [kind |-> "list", success |-> Absent]
      [] text = "{}" -> [kind |-> "object", success |-> Absent]
      [] text = "{\"success\": true}" -> [kind |-> "object", success |-> True]
      [] text = "{\"success\": false}" -> [kind |-> "object", success |-> False]
      [] text = "{\"success\": null}" ->
            [kind |-> "object", success |-> [t |-> "null", v |-> ""]]
      [] text = "{\"success\": \"false\"}" ->
            [kind |-> "object", success |-> [t |-> "str", v |-> "false"]]
      [] OTHER -> [kind |-> "invalid", success |-> Absent]

NoData == [kind |-> "none", success |-> Absent]

\* data.get("success", False)
GetSuccess(data) == IF data.success = Absent THEN False ELSE data.success

\* Python's truth value of a JSON value: None is false, a bool is itself, a
\* string is true unless empty.
Truthy(x) ==
    CASE x.t = "bool" -> x.v = "true"
      [] x.t = "str" -> x.v # ""
      [] OTHER -> FALSE

StatusIsErrorFrom500(status) == status >= 500

\* if resp.status_code >= 300
StatusIsError(status) == status >= 300

PayloadNeverRejected(data) == FALSE

\* if not data.get("success", False)
PayloadRejected(data) == ~Truthy(GetSuccess(data))

NeverTimedOut(e) == FALSE

\* The timeout of requests.post has run out.
TimedOut(e) == e >= timeout

NoOutcome == [type |-> "none", status |-> 0, body |-> ""]

HttpOutcome(status, body) == [type |-> "http", status |-> status, body |-> body]

----------------------------------------------------------------------------
\* What the caller gets.

Response(code, kind, status, body, data, job_id, video_file) ==
    [code |-> code, kind |-> kind, status |-> status, body |-> body,
     data |-> data, job_id |-> job_id, video_file |-> video_file]

NoResponse == Response(0, "none", 0, "", NoData, Empty, Empty)

\* FastAPI's answer to a request whose required form field is missing.
InvalidInput == Response(422, "InvalidInput", 0, "", NoData, Empty, Empty)

\* HTTPException(502, "Cloudflare Queue error: status=..., body=...")
BackendError(status, body) ==
    Response(502, "Backend", status, body, NoData, Empty, Empty)

\* HTTPException(502, "Cloudflare Queue returned error: " + json.dumps(data))
BackendRejected(data) ==
    Response(502, "BackendRejected", 0, "", data, Empty, Empty)

\* HTTPException(502, "Failed to connect to Cloudflare Queue: ...")
TransportError == Response(502, "Transport", 0, "", NoData, Empty, Empty)

\* An exception that is no HTTPException leaves the handler: FastAPI answers
\* 500 Internal Server Error.
ServerError == Response(500, "ServerError", 0, "", NoData, Empty, Empty)

\* enqueue_job returned data.
Ack(data) == Response(0, "Ack", 0, "", data, Empty, Empty)

\* The JSONResponse of queue_video.
Queued(j) == Response(200, "queued", 0, "", NoData, j.job_id, j.final_key)

\* enqueue_job from the line after requests.post: the ways it can end for a
\* backend outcome.  resp.json() on a body that is no JSON raises
\* requests.JSONDecodeError, a RequestException caught by the except clause,
\* or with an older requests a plain ValueError that escapes it; .get on a
\* JSON array raises AttributeError, which escapes too.
EnqueueJob(o) ==
    IF o.type # "http" THEN {TransportError}
    ELSE IF StatusIsError(o.status) THEN {BackendError(o.status, o.body)}
    ELSE IF Json(o.body).kind = "invalid" THEN {TransportError, ServerError}
    ELSE IF Json(o.body).kind # "object" THEN {ServerError}
    ELSE IF PayloadRejected(Json(o.body)) THEN {BackendRejected(Json(o.body))}
    ELSE {Ack(Json(o.body))}

\* queue_video after enqueue_job(job): an exception goes to the caller as it
\* is, a return is followed by the "queued" response.
QueueVideoReturn(j, r) == IF r.kind = "Ack" THEN Queued(j) ELSE r

NoJob == BuildJob(Empty, Empty, Empty, Empty)

NoRequest == [audio_url |-> Empty, image_url |-> Empty, date |-> Empty]

----------------------------------------------------------------------------
\* The state machine.

Init ==
    /\ pc = "idle"
    /\ nreq = 0
    /\ req = NoRequest
    /\ job = NoJob
    /\ wire = <<>>
    /\ elapsed = 0
    /\ outcome = NoOutcome
    /\ resp = NoResponse
    /\ jobs = <<>>
    /\ used = {}

\* POST /video-url with a required form field missing: answered by the
\* framework, the handler body does not run.
RejectRequest(a, i, d) ==
    /\ pc = "idle"
    /\ nreq < MaxRequests
    /\ FormMissing(a) \/ FormMissing(i) \/ FormMissing(d)
    /\ nreq' = nreq + 1
    /\ req' = [audio_url |-> a, image_url |-> i, date |-> d]
    /\ job' = NoJob
    /\ wire' = <<>>
    /\ elapsed' = 0
    /\ outcome' = NoOutcome
    /\ resp' = InvalidInput
    /\ UNCHANGED <<pc, jobs, used>>

\* queue_video up to and including the requests.post call of enqueue_job.
QueueVideo(a, i, d, u) ==
    /\ pc = "idle"
    /\ nreq < MaxRequests
    /\ ~(FormMissing(a) \/ FormMissing(i) \/ FormMissing(d))
    /\ u \in (1..MaxIds) \ used
    /\ nreq' = nreq + 1
    /\ req' = [audio_url |-> a, image_url |-> i, date |-> d]
    /\ job' = BuildJob(uuid4hex(u), a, i, d)
    /\ used' = used \cup {u}
    /\ jobs' = Append(jobs, job')
    /\ wire' = Post(<<>>, Envelope(job'))
    /\ elapsed' = 0
    /\ outcome' = NoOutcome
    /\ resp' = NoResponse
    /\ pc' = "awaiting"

\* The rest of the handler, once requests.post has ended with outcome o.
Finish(o) ==
    /\ outcome' = o
    /\ \E r \in EnqueueJob(o) : resp' = QueueVideoReturn(job, r)
    /\ pc' = "idle"
    /\ elapsed' = 0
    /\ UNCHANGED <<nreq, req, job, wire, jobs, used>>

\* The backend answers with an HTTP response.
Respond(status, body) ==
    /\ pc = "awaiting"
    /\ ~TimedOut(elapsed)
    /\ Finish(HttpOutcome(status, body))

\* Connection refused, DNS failure, TLS error: requests raises at once.
ConnectionFails ==
    /\ pc = "awaiting"
    /\ ~TimedOut(elapsed)
    /\ Finish([type |-> "refused", status |-> 0, body |-> ""])

\* A second passes with nothing from the backend.
Tick ==
    /\ pc = "awaiting"
    /\ elapsed < timeout
    /\ elapsed' = elapsed + 1
    /\ UNCHANGED <<pc, nreq, req, job, wire, outcome, resp, jobs, used>>

\* requests raises Timeout.
Timeout ==
    /\ pc = "awaiting"
    /\ TimedOut(elapsed)
    /\ Finish([type |-> "timeout", status |-> 0, body |-> ""])

Next ==
    \/ \E a \in AudioUrls, i \in ImageUrls, d \in Dates : RejectRequest(a, i, d)
    \/ \E a \in AudioUrls, i \in ImageUrls, d \in Dates, u \in 1..MaxIds :
          QueueVideo(a, i, d, u)
    \/ \E s \in Statuses, b \in Bodies : Respond(s, b)
    \/ ConnectionFails
    \/ Tick
    \/ Timeout

Spec == Init /\ [][Next]_vars

\* Time passes while a request waits, and the timeout fires when it has run
\* out; nothing is assumed of the backend.
FairSpec == Spec /\ WF_vars(Tick) /\ WF_vars(Timeout)

----------------------------------------------------------------------------
\* Properties.

\* The latest request went through enqueue_job and has been answered.
Answered == pc = "idle" /\ outcome.type # "none"

SuccessStatus(status) == status >= 200 /\ status <= 299

\* The backend acknowledged: an HTTP success status and a JSON object whose
\* success flag is the boolean true.
Acknowledged(o) ==
    /\ o.type = "http"
    /\ SuccessStatus(o.status)
    /\ Json(o.body).kind = "object"
    /\ Json(o.body).success = True

\* The key the documented pattern gives a job:
\* final-video-<date>-<first 8 hex chars of job_id>.mp4
DocumentedKey(date, job_id) ==
    KeyPrefix \o date \o <<"-">> \o SubSeq(job_id, 1, 8) \o KeySuffix

\* C1: over every backend outcome, the caller gets the "queued" response
\* only if the backend answered with an HTTP success status and a payload
\* whose success flag is true; every other outcome is answered with a
\* failure response.
C1_QueuedOnlyIfAcknowledged ==
    /\ resp.kind = "queued" => Acknowledged(outcome)
    /\ (Answered /\ ~Acknowledged(outcome)) => resp.code >= 400

\* C2: a success status with the payload {"success": false} ends as
\* BackendRejected with status 502, the status an HTTP error gets, carrying
\* the backend's payload; it is never reported as queued.
C2_FalseFlagRejected ==
    (/\ Answered
     /\ outcome.type = "http"
     /\ SuccessStatus(outcome.status)
     /\ outcome.body = "{\"success\": false}")
    => /\ resp.kind = "BackendRejected"
       /\ resp.code = BackendError(outcome.status, outcome.body).code
       /\ resp.data = Json(outcome.body)
       /\ resp.kind # "queued"

C2_Witness ==
    /\ Answered
    /\ outcome = HttpOutcome(200, "{\"success\": false}")
    /\ resp.kind = "BackendRejected"

\* C3: a non-success HTTP status ends as a Backend error carrying that exact
\* status and the response body verbatim, whatever the body says: a body
\* saying success=true does not make it a success.
C3_ErrorStatusCarried ==
    (Answered /\ outcome.type = "http" /\ ~SuccessStatus(outcome.status))
    => /\ resp.kind = "Backend"
       /\ resp.code = 502
       /\ resp.status = outcome.status
       /\ resp.body = outcome.body

C3_Witness ==
    /\ Answered
    /\ outcome = HttpOutcome(503, "{\"success\": true}")
    /\ resp.kind = "Backend"
    /\ resp.status = 503

\* C4: every invocation of enqueue_job makes exactly one POST to the
\* backend, while it waits and after it has ended, whatever the outcome.
C4_OnePostPerInvocation ==
    /\ pc = "awaiting" => Len(wire) = 1
    /\ Answered => Len(wire) = 1

C4_Witness ==
    /\ Answered
    /\ resp.kind \in {"Transport", "Backend", "BackendRejected"}
    /\ Len(wire) = 1

\* C5: a request with an empty audio_url, image_url or date is answered
\* InvalidInput and nothing is sent to the backend; no job is built for it.
C5_EmptyFieldRejected ==
    /\ (nreq > 0 /\ (req.audio_url = Empty \/ req.image_url = Empty
                     \/ req.date = Empty))
       => /\ pc = "idle"
          /\ resp = InvalidInput
          /\ wire = <<>>
          /\ job = NoJob
    /\ \A k \in 1..Len(jobs) :
          /\ jobs[k].audio_url # Empty
          /\ jobs[k].image_url # Empty
          /\ jobs[k].date # Empty

C5_Witness ==
    /\ nreq > 0
    /\ req.audio_url # Empty
    /\ req.image_url # Empty
    /\ req.date = Empty
    /\ resp.kind = "InvalidInput"

\* C6: every built job's final_key, and the video_file returned for it, is
\* "final-video-" + date + "-" + the first 8 hex characters of its job_id +
\* ".mp4".
C6_FinalKeyPattern ==
    /\ \A k \in 1..Len(jobs) :
          jobs[k].final_key = DocumentedKey(jobs[k].date, jobs[k].job_id)
    /\ resp.kind = "queued"
          => resp.video_file = DocumentedKey(req.date, resp.job_id)

\* C7: no two job records of this process carry the same job_id, identical
\* submissions and resubmissions after a failure included.
C7_JobIdsDistinct ==
    \A k \in 1..Len(jobs), l \in 1..Len(jobs) :
        k # l => jobs[k].job_id # jobs[l].job_id

C7_Witness ==
    /\ Len(jobs) >= 2
    /\ jobs[1].audio_url = jobs[2].audio_url
    /\ jobs[1].image_url = jobs[2].image_url
    /\ jobs[1].date = jobs[2].date
    /\ Answered
    /\ resp.kind = "queued"

\* C8: two distinct jobs with the same date never have the same final_key.
C8_SameDateKeysDistinct ==
    \A k \in 1..Len(jobs), l \in 1..Len(jobs) :
        (k # l /\ jobs[k].date = jobs[l].date)
            => jobs[k].final_key # jobs[l].final_key

\* C9: every enqueue_job invocation returns: a request waiting on the
\* backend is eventually answered, and when the backend is unreachable or
\* stays silent for the whole timeout the answer is the Transport failure.
C9_PublishReturns ==
    /\ [](outcome.type \in {"refused", "timeout"} => resp = TransportError)
    /\ (pc = "awaiting") ~> (pc = "idle" /\ resp # NoResponse)

C9_Witness ==
    /\ Answered
    /\ outcome.type = "timeout"
    /\ resp.kind = "Transport"

\* C10: for an accepted request exactly one body was sent, it holds exactly
\* one message, and decoding that message's body gives the job record: the
\* request's audio_url, image_url and date, and the job_id and video_file
\* returned to the caller.
C10_EnvelopeRoundTrip ==
    resp.kind = "queued"
    => /\ Len(wire) = 1
       /\ Len(wire[1].messages) = 1
       /\ JsonLoads(wire[1].messages[1].body) =
             [job_id    |-> resp.job_id,
              audio_url |-> req.audio_url,
              image_url |-> req.image_url,
              date      |-> req.date,
              final_key |-> resp.video_file]

C10_Witness ==
    /\ Answered
    /\ resp.kind = "queued"
    /\ Len(resp.job_id) = 32
    /\ Len(wire) = 1

====
